---- MODULE Spec2Model ----
(***************************************************************************)
(* localscope: ScopeContextManager (src/__init__.py).                      *)
(*                                                                         *)
(* The caller's frame locals are a Python dict, modelled as a function     *)
(* whose DOMAIN is the set of names currently bound.  Values are opaque    *)
(* immutable objects: the code never inspects a value, it only copies and  *)
(* rebinds it, so two distinct values tell every outcome apart.            *)
(* A `with scope(...)` statement is modelled as the protocol Python runs:  *)
(* __init__, __enter__, the statements of the block, __exit__.  The frame  *)
(* is one whose f_locals is live (module level), as the code requires.     *)
(***************************************************************************)
EXTENDS Integers, Sequences, FiniteSets, TLC

\* ---------------------------------------------------------------- bounds
MaxKw == 3
MaxList == 1
MaxListKw == 1

\* ------------------------------------------------------------ input sets
\* Variable names of the calling frame.
Names == {"a", "b", "c"}
Values == {"v1", "v2"}
\* Elements a positional list may hold: names, and "1" for an element that
\* is not a variable name (as in scope([1, 2])).
Elems == Names \cup {"1"}

SeqsUpTo(S, n) == UNION {[1..k -> S] : k \in 0..n}
Range(s) == {s[i] : i \in DOMAIN s}

\* Every dict over Names (a frame's locals, a snapshot).
Dicts == UNION {[D -> Values] : D \in SUBSET Names}

\* **kwargs: a dict, as the sequence of its <<name, value>> pairs in
\* iteration order, with distinct names.  Every order is drawn: it is the
\* call order on current Pythons and arbitrary on older ones.
KwargsSet ==
  {kw \in SeqsUpTo(Names \X Values, MaxKw) :
      \A i, j \in DOMAIN kw : kw[i][1] = kw[j][1] => i = j}

\* Python objects passed positionally: tagged by their type.
PyList(s) == [type |-> "list", items |-> s]
PyTuple(s) == [type |-> "tuple", items |-> s]
PyStr == [type |-> "str", items |-> <<>>]
PyNone == [type |-> "NoneType", items |-> <<>>]
isinstance_list(x) == x.type = "list"

PosValues ==
  {PyList(s) : s \in SeqsUpTo(Elems, MaxList)}
    \cup {PyTuple(s) : s \in SeqsUpTo(Names, 1)}
    \cup {PyStr}
\* *args: none, one, or two positional arguments.
ArgsSet ==
  {<<>>} \cup {<<x>> : x \in PosValues}
         \cup {<<PyList(<<>>), x>> : x \in {PyList(<<>>), PyStr}}
\* The calls scope(*a, **kw) the caller makes; with a positional argument,
\* at most MaxListKw keywords.
CallSet ==
  {c \in ArgsSet \X KwargsSet : Len(c[1]) = 0 \/ Len(c[2]) <= MaxListKw}

\* ------------------------------------------------------- dict operations
EmptyDict == <<>>
DictCopy(d) == [n \in DOMAIN d |-> d[n]]
DictUpdate(d, e) ==
  [n \in DOMAIN d \cup DOMAIN e |-> IF n \in DOMAIN e THEN e[n] ELSE d[n]]
DictSet(d, n, v) == [m \in DOMAIN d \cup {n} |-> IF m = n THEN v ELSE d[m]]
DictDel(d, n) == [m \in DOMAIN d \ {n} |-> d[m]]
\* The dict a kwargs sequence denotes.
KwDict(kw) ==
  [n \in {kw[i][1] : i \in DOMAIN kw} |->
      (CHOOSE p \in Range(kw) : p[1] = n)[2]]
KwNames(kw) == {kw[i][1] : i \in DOMAIN kw}

\* ------------------------------------------------------------------ state
VARIABLES
  l,                \* the caller frame's f_locals (live)
  pc,               \* position of the caller in the with statement
  args,             \* positional arguments given to the constructor
  initial_values,   \* self.initial_values
  vars_to_preserve, \* self.vars_to_preserve
  old_locals,       \* self.old_locals
  pre,              \* history: the locals when the with statement began
  blockEnd,         \* history: the locals when the block was left
  exc,              \* the block was left by an error
  raised,           \* what propagates out of the with statement
  left,             \* history: the locals the last __exit__ left
  later             \* an earlier with statement ran in this frame

vars == <<l, pc, args, initial_values, vars_to_preserve, old_locals, pre,
          blockEnd, exc, raised, left, later>>

\* --------------------------------------------------------------- __init__
\* Mutant: the isinstance check of line 125 is missing.
init_vars_to_preserve_unchecked(a, kw) ==
  IF Len(a) = 0
    THEN IF Len(kw) = 0 THEN PyList(<<>>) ELSE PyNone
    ELSE IF Len(a) = 1
           THEN PyList(a[1].items)
           ELSE [type |-> "ValueError", items |-> <<>>]

\* Lines 120-128: the value of self.vars_to_preserve, or "ValueError".
init_vars_to_preserve(a, kw) ==
  IF Len(a) = 0
    THEN IF Len(kw) = 0 THEN PyList(<<>>) ELSE PyNone
    ELSE IF Len(a) = 1 /\ isinstance_list(a[1])
           THEN a[1]
           ELSE [type |-> "ValueError", items |-> <<>>]

init_ok(a, kw) == init_vars_to_preserve(a, kw).type # "ValueError"

\* --------------------------------------------------------------- __enter__
\* Mutant: the snapshot is kept in one place shared by all guards and taken
\* only by the first entry in the frame (whose locals are those of Init).
enter_old_locals_cached(cur, kw) ==
  IF later THEN EmptyDict ELSE DictCopy(cur)

\* Mutant: lines 131 and 132 swapped, the snapshot is taken after the update.
enter_old_locals_late(cur, kw) == DictCopy(DictUpdate(cur, KwDict(kw)))

\* Line 131: the snapshot, taken from the live locals before line 132.
enter_old_locals(cur, kw) == DictCopy(cur)
\* Line 132: l.update(self.initial_values).
enter_locals(cur, kw) == DictUpdate(cur, KwDict(kw))

\* ---------------------------------------------------------------- __exit__
\* Mutant: the preserved subset is lost (line 140 re-applies nothing).
exit_preserved_dropped(vtp, cur) == EmptyDict

\* Line 137: the listed names that are in the live locals, with their values.
exit_preserved(vtp, cur) ==
  [n \in Range(vtp.items) \cap DOMAIN cur |-> cur[n]]

\* Mutant: l.clear() of line 138 is missing.
exit_list_noclear(vtp, old, cur) ==
  [l |-> DictUpdate(DictUpdate(cur, old), exit_preserved(vtp, cur)),
   err |-> "none"]

\* Lines 137-140: clear, restore the snapshot, re-apply the preserved names.
exit_list(vtp, old, cur) ==
  [l |-> DictUpdate(DictUpdate(EmptyDict, old), exit_preserved(vtp, cur)),
   err |-> "none"]

\* Lines 143-147: the loop over the keyword names from position i on, in the
\* dict's iteration order.  `del l[name]` raises KeyError when the name is
\* not in the live locals, and the loop ends there.
RECURSIVE exit_keywords(_, _, _, _)
exit_keywords(kw, old, cur, i) ==
  IF i > Len(kw)
    THEN [l |-> cur, err |-> "none"]
    ELSE LET name == kw[i][1] IN
         IF name \in DOMAIN old
           THEN exit_keywords(kw, old, DictSet(cur, name, old[name]), i + 1)
           ELSE IF name \in DOMAIN cur
                  THEN exit_keywords(kw, old, DictDel(cur, name), i + 1)
                  ELSE [l |-> cur, err |-> "KeyError"]

\* Lines 134-147: the locals __exit__ leaves and the error it raises.
exit_result(vtp, kw, old, cur) ==
  IF isinstance_list(vtp)
    THEN exit_list(vtp, old, cur)
    ELSE exit_keywords(kw, old, cur, 1)

\* __exit__ has no return statement: it returns None, which is not truthy.
exit_returns_truthy == FALSE

\* What leaves the with statement: an error raised by __exit__ replaces the
\* block's error; otherwise the block's error propagates unless __exit__
\* returned a truthy value.
Propagated(e, exitErr) ==
  IF exitErr # "none" THEN exitErr
  ELSE IF e /\ ~exit_returns_truthy THEN "BlockError"
  ELSE "none"

\* The locals one guard built by scope(*a, **kw) leaves: after __enter__ on
\* the locals cur, and after __exit__ when it was entered on the locals
\* before and the block ended with the locals end.
RunEnter(a, kw, cur) == enter_locals(cur, kw)
RunExit(a, kw, before, end) ==
  exit_result(init_vars_to_preserve(a, kw), kw,
              enter_old_locals(before, kw), end)

\* ---------------------------------------------------------------- actions
Init ==
  /\ l = EmptyDict
  /\ pc = "idle"
  /\ args = <<>>
  /\ initial_values = <<>>
  /\ vars_to_preserve = PyNone
  /\ old_locals = EmptyDict
  /\ pre = EmptyDict
  /\ blockEnd = EmptyDict
  /\ exc = FALSE
  /\ raised = "none"
  /\ left = EmptyDict
  /\ later = FALSE

\* scope(*a, **kw): lines 118-128.  A new instance has no old_locals yet.
__init__(a, kw) ==
  /\ pc = "idle"
  /\ args' = a
  /\ initial_values' = kw
  /\ vars_to_preserve' = init_vars_to_preserve(a, kw)
  /\ old_locals' = EmptyDict
  /\ pre' = l
  /\ blockEnd' = EmptyDict
  /\ exc' = FALSE
  /\ IF init_ok(a, kw)
       THEN pc' = "constructed" /\ raised' = "none"
       ELSE pc' = "failed" /\ raised' = "ValueError"
  /\ UNCHANGED <<l, left, later>>

\* Lines 129-132.
__enter__ ==
  /\ pc = "constructed"
  /\ old_locals' = enter_old_locals(l, initial_values)
  /\ l' = enter_locals(l, initial_values)
  /\ pc' = "block"
  /\ UNCHANGED <<args, initial_values, vars_to_preserve, pre, blockEnd, exc,
                 raised, left, later>>

\* A statement of the block binds or rebinds a name.
Assign(n, v) ==
  /\ pc = "block"
  /\ l' = DictSet(l, n, v)
  /\ UNCHANGED <<pc, args, initial_values, vars_to_preserve, old_locals, pre,
                 blockEnd, exc, raised, left, later>>

\* A statement of the block deletes a bound name.
Delete(n) ==
  /\ pc = "block"
  /\ n \in DOMAIN l
  /\ l' = DictDel(l, n)
  /\ UNCHANGED <<pc, args, initial_values, vars_to_preserve, old_locals, pre,
                 blockEnd, exc, raised, left, later>>

\* The block is left, normally (e = FALSE) or by an error (e = TRUE), and
\* the with statement calls __exit__: lines 133-147.
__exit__(e) ==
  /\ pc = "block"
  /\ LET r == exit_result(vars_to_preserve, initial_values, old_locals, l) IN
       /\ l' = r.l
       /\ left' = r.l
       /\ raised' = Propagated(e, r.err)
  /\ blockEnd' = l
  /\ exc' = e
  /\ pc' = "done"
  /\ UNCHANGED <<args, initial_values, vars_to_preserve, old_locals, pre,
                 later>>

\* Control leaves the with statement (or the failed constructor call): the
\* guard instance is dropped and only the frame's locals remain.
EndWith ==
  /\ pc \in {"done", "failed"}
  /\ pc' = "idle"
  /\ args' = <<>>
  /\ initial_values' = <<>>
  /\ vars_to_preserve' = PyNone
  /\ old_locals' = EmptyDict
  /\ pre' = EmptyDict
  /\ blockEnd' = EmptyDict
  /\ exc' = FALSE
  /\ raised' = "none"
  /\ later' = (later \/ pc = "done")
  /\ UNCHANGED <<l, left>>

Next ==
  \/ pc = "idle" /\ \E c \in CallSet : __init__(c[1], c[2])
  \/ __enter__
  \/ pc = "block" /\ \E n \in Names, v \in Values : Assign(n, v)
  \/ pc = "block" /\ \E n \in Names : Delete(n)
  \/ pc = "block" /\ \E e \in BOOLEAN : __exit__(e)
  \/ EndWith

Spec == Init /\ [][Next]_vars

\* ------------------------------------------------------------ vocabulary
\* Name n has the same state (bound or not, and to what) in dicts d and e.
SameAt(d, e, n) ==
  /\ (n \in DOMAIN d) <=> (n \in DOMAIN e)
  /\ n \in DOMAIN d => d[n] = e[n]

\* The three ways a guard is built, read off the constructor's arguments.
NoArgs == Len(args) = 0 /\ Len(initial_values) = 0
KeywordOnly == Len(args) = 0 /\ Len(initial_values) >= 1
ListGiven == Len(args) = 1 /\ args[1].type = "list"
Listed == IF Len(args) = 1 THEN Range(args[1].items) ELSE {}
Keywords == KwNames(initial_values)

EnterStep == pc = "constructed" /\ pc' = "block"
ExitStep == pc = "block" /\ pc' = "done"

\* ------------------------------------------------------------------- C1
\* C1: after the exit of a guard built with no arguments, the locals have
\* exactly the names they had before entry, each with its pre-scope value.
C1_FullResetRoundTrip ==
  (pc = "done" /\ NoArgs) =>
    /\ DOMAIN l = DOMAIN pre
    /\ \A n \in DOMAIN pre : l[n] = pre[n]

\* A no-argument scope whose block created a name, deleted a name and
\* rebound a name has exited.
C1_Witness ==
  /\ pc = "done" /\ NoArgs
  /\ DOMAIN blockEnd \ DOMAIN pre # {}
  /\ DOMAIN pre \ DOMAIN blockEnd # {}
  /\ \E n \in DOMAIN pre \cap DOMAIN blockEnd : pre[n] # blockEnd[n]

\* ------------------------------------------------------------------- C2
\* C2 (as claimed): after the exit of a guard built with a list, every
\* listed name has the state it had when the block ended and every other
\* name has its pre-scope state.
C2_PreserveList ==
  (pc = "done" /\ ListGiven) =>
    \A n \in Names :
      IF n \in Listed THEN SameAt(l, blockEnd, n) ELSE SameAt(l, pre, n)

\* C2 (amended): after the exit of a guard built with a list, every listed
\* name that is bound when the block ends keeps the value it has then;
\* every other name, listed or not, has its pre-scope state.
C2_PreserveListBound ==
  (pc = "done" /\ ListGiven) =>
    \A n \in Names :
      IF n \in Listed /\ n \in DOMAIN blockEnd
        THEN n \in DOMAIN l /\ l[n] = blockEnd[n]
        ELSE SameAt(l, pre, n)

\* A list-mode scope has exited whose block deleted a listed name that was
\* bound before the scope, and changed a name that is not listed.
C2_Witness ==
  /\ pc = "done" /\ ListGiven
  /\ \E n \in Listed : n \in DOMAIN pre /\ n \notin DOMAIN blockEnd
  /\ \E m \in Names \ Listed : ~SameAt(blockEnd, pre, m)

\* ------------------------------------------------------------------- C3
\* C3: for a keyword-only guard, entry binds every keyword to its value;
\* exit leaves every keyword with its pre-scope state (its old value, or
\* unbound) and every other name as the block left it.
C3_KeywordOnly ==
  [][/\ (EnterStep /\ KeywordOnly) =>
          \A i \in DOMAIN initial_values :
            /\ initial_values[i][1] \in DOMAIN l'
            /\ l'[initial_values[i][1]] = initial_values[i][2]
     /\ (ExitStep /\ KeywordOnly) =>
          \A n \in Names :
            IF n \in Keywords THEN SameAt(l', pre, n) ELSE SameAt(l', l, n)
    ]_vars

\* ------------------------------------------------------------------- C4
\* C4: __exit__ never raises after a successful entry.
C4_ExitNeverFails == pc = "done" => raised # "KeyError"

\* ------------------------------------------------------------------- C5
\* C5: when the block is left by an error, __exit__ completes and the
\* block's own error is what propagates out of the with statement.
C5_BlockErrorPropagates == (pc = "done" /\ exc) => raised = "BlockError"

\* ------------------------------------------------------------------- C6
\* The mode recorded by a successful construction, kept until the exit.
ModeFixed ==
  pc \in {"constructed", "block", "done"} =>
    /\ NoArgs => vars_to_preserve = PyList(<<>>)
    /\ KeywordOnly => vars_to_preserve = PyNone
    /\ Len(args) = 1 =>
         /\ vars_to_preserve.type = "list"
         /\ vars_to_preserve.items = args[1].items

SequenceOfNames(x) ==
  x.type \in {"list", "tuple"} /\ Range(x.items) \subseteq Names

\* C6 (as claimed): construction succeeds exactly with no positional
\* argument or with one positional argument that is a sequence of names;
\* otherwise it raises ValueError; the mode is then fixed.
C6_Construction ==
  /\ pc # "idle" =>
       /\ pc # "failed" <=>
            (Len(args) = 0 \/ (Len(args) = 1 /\ SequenceOfNames(args[1])))
       /\ pc = "failed" => raised = "ValueError"
  /\ ModeFixed

\* C6 (amended): construction succeeds exactly with no positional argument
\* or with one positional argument that is a list, whatever its elements;
\* otherwise it raises ValueError; the mode is then fixed.
C6_ConstructionList ==
  /\ pc # "idle" =>
       /\ pc # "failed" <=>
            (Len(args) = 0 \/ (Len(args) = 1 /\ args[1].type = "list"))
       /\ pc = "failed" => raised = "ValueError"
  /\ ModeFixed

\* A tuple of names was passed and the construction failed.
C6_Witness ==
  /\ pc = "failed"
  /\ Len(args) = 1 /\ args[1].type = "tuple" /\ Len(args[1].items) > 0
  /\ SequenceOfNames(args[1])

\* ------------------------------------------------------------------- C7
\* C7: scope() behaves as scope([]) at entry and at exit; scope(k=v, ..)
\* and scope([], k=v, ..) leave the same state for every keyword and differ
\* on every other name: the latter resets it, the former leaves it as the
\* block left it.
C7_NoArgsIsEmptyList ==
  [][/\ (EnterStep /\ NoArgs) => l' = RunEnter(<<PyList(<<>>)>>, <<>>, l)
     /\ (ExitStep /\ NoArgs) =>
          l' = RunExit(<<PyList(<<>>)>>, <<>>, pre, l).l
     /\ (ExitStep /\ KeywordOnly) =>
          LET alt == RunExit(<<PyList(<<>>)>>, initial_values, pre, l).l IN
            \A n \in Names :
              IF n \in Keywords
                THEN SameAt(l', alt, n)
                ELSE SameAt(alt, pre, n) /\ SameAt(l', l, n)
    ]_vars

\* ------------------------------------------------------------------- C8
\* C8: entry leaves in old_locals exactly the locals as they were before
\* entry, and in the live locals those overridden by the keywords; the
\* block's later changes of the live locals do not change old_locals.
C8_EntrySnapshot ==
  [][/\ EnterStep =>
          /\ DOMAIN old_locals' = DOMAIN l
          /\ \A n \in DOMAIN l : old_locals'[n] = l[n]
          /\ \A n \in Names :
               IF n \in Keywords
                 THEN n \in DOMAIN l' /\ l'[n] = KwDict(initial_values)[n]
                 ELSE SameAt(l', l, n)
     /\ pc = "block" => old_locals' = old_locals
    ]_vars

\* Inside a block whose guard overrode a bound name and introduced a new
\* one, after the block changed a name that is not a keyword.
C8_Witness ==
  /\ pc = "block"
  /\ \E n \in Keywords \cap DOMAIN pre : pre[n] # KwDict(initial_values)[n]
  /\ Keywords \ DOMAIN pre # {}
  /\ \E n \in Names \ Keywords : ~SameAt(l, pre, n)

\* ------------------------------------------------------------------- C9
\* The names a branch of __exit__ is responsible for, and the state it is
\* to bring each to.
Touched == IF isinstance_list(vars_to_preserve) THEN Names ELSE Keywords
Restored(n) ==
  IF isinstance_list(vars_to_preserve)
       /\ n \in Range(vars_to_preserve.items) /\ n \in DOMAIN blockEnd
    THEN n \in DOMAIN l /\ l[n] = blockEnd[n]
    ELSE SameAt(l, pre, n)

\* C9: when __exit__ has finished, normally or by failing, either every
\* name it is responsible for is in its post-scope state or none of them
\* has been changed.
C9_AllOrNothing ==
  pc = "done" =>
    \/ \A n \in Touched : Restored(n)
    \/ \A n \in Touched : SameAt(l, blockEnd, n)

====
